---- MODULE Spec2Model ----
(***************************************************************************)
(* Model of the Bayesian-optimisation calibration driver                   *)
(* (sim/calibrate.py, __main__): command line, resume from a checkpoint,   *)
(* initial design, the BO loop with its per-iteration checkpoint, and the  *)
(* final report.  A behaviour is a sequence of runs of the script that     *)
(* share one file system.                                                  *)
(*                                                                         *)
(* Strings are sequences of one-character strings, so that the path        *)
(* arithmetic of the script ('logs/' + filename + '_state.pk', filename +  *)
(* '_' + git describe) is computed, not assumed.                           *)
(*                                                                         *)
(* Indices are 0-based as in the script: train_theta[i] of the script is   *)
(* train_theta[i + 1] here.                                                *)
(*                                                                         *)
(* A second specification, DataSpec, models single calls of                *)
(* collect_data_from_df (sim/lib/data.py) with the csv rows they read.     *)
(***************************************************************************)
EXTENDS Integers, Sequences, FiniteSets, TLC

(* ------------------------------ bounds --------------------------------- *)
\* number of runs of the script in one behaviour
MaxRuns == 2
\* largest --niters explored
MaxNiters == 2
\* largest --ninit explored
MaxNinit == 1
\* largest `until` (days) passed to collect_data_from_df
MaxUntil == 2
\* dates are day numbers 0..MaxDate
MaxDate == 3

(* ------------------------------ strings -------------------------------- *)
LogsDir == <<"l", "o", "g", "s", "/">>
StateSuffix == <<"_", "s", "t", "a", "t", "e", ".", "p", "k">>
Underscore == <<"_">>

\* args.filename values explored
FileNames == {<<"a">>}
\* outputs of `git describe --always` (never empty)
GitDescribes == {<<"g">>}
\* a dataset file outside logs/, a value of --load
ExternalPath == <<"d">>

\* 'logs/' + args.filename + '_state.pk'
ContinuePath(filename) == LogsDir \o filename \o StateSuffix

\* args.filename + '_' + git describe
SaveName(filename, describe) == filename \o Underscore \o describe

\* the file save_state(obj, name) writes: 'logs/' + name + '_state.pk'
StatePath(name) == LogsDir \o name \o StateSuffix

(* --------------------------- pure functions ---------------------------- *)
\* unit-cube parameter vectors (abstracted to two points)
Thetas == {0, 1}

\* the scalar objective of an observation G: negative squared error
objective(G) == 0 - (G * G)

RECURSIVE ArgMaxFrom(_, _, _)
ArgMaxFrom(f, i, best) ==
    IF i > Len(f) THEN best
    ELSE ArgMaxFrom(f, i + 1, IF f[i] > f[best] THEN i ELSE best)

\* index (0-based) of the first maximal entry of a non-empty sequence
ArgMax(f) == ArgMaxFrom(f, 1, 1) - 1

\* objective(train_G): the objective of every observation
Objectives(G) == [i \in 1..Len(G) |-> objective(G[i])]

\* train_G_objectives.argmax() and train_G_objectives[best_observed_idx]
BestIdxOfNewest(G) == Len(G) - 1
BestIdx(G) == ArgMax(Objectives(G))
BestObj(G) == Objectives(G)[BestIdx(G) + 1]

Max(a, b) == IF a > b THEN a ELSE b

(* ------------------------ external collaborators ----------------------- *)
\* black-box simulators: deterministic given parameters and evaluation index
Simulators == {"bytheta", "byindex"}

\* one evaluation (G, G_sem) of parameter vector theta as observation number i
Simulate(s, theta, i) ==
    IF s = "bytheta"
    THEN [G |-> theta, G_sem |-> 1 - theta]
    ELSE [G |-> (i % 3) - 1, G_sem |-> i % 2]

\* i-th point of the initial design (quasi-random points, then corner points)
InitialDesignTheta(i) == i % 2

(* ------------------------------ checkpoints ---------------------------- *)
EmptyState ==
    [train_theta |-> <<>>, train_G |-> <<>>, train_G_sem |-> <<>>,
     best_observed_obj |-> 0, best_observed_idx |-> 0]

\* a partially evaluated initial dataset, a longer history, a corrupt file
DatasetShort ==
    [train_theta |-> <<0>>, train_G |-> <<1>>, train_G_sem |-> <<1>>,
     best_observed_obj |-> -1, best_observed_idx |-> 0]
DatasetLong ==
    [train_theta |-> <<0, 1, 1>>, train_G |-> <<1, 0, 0>>, train_G_sem |-> <<1, 0, 1>>,
     best_observed_obj |-> 0, best_observed_idx |-> 1]
DatasetCorrupt ==
    [train_theta |-> <<0, 1>>, train_G |-> <<1>>, train_G_sem |-> <<1>>,
     best_observed_obj |-> -1, best_observed_idx |-> 0]

\* the arrays of a checkpoint are parallel
WellFormed(st) ==
    /\ Len(st.train_G) = Len(st.train_theta)
    /\ Len(st.train_G_sem) = Len(st.train_theta)

\* load_state(path): the file's content, or an error
NoValidation(fs, path) ==
    IF path \notin DOMAIN fs THEN "FileNotFoundError" ELSE "ok"
LoadOutcome(fs, path) ==
    IF path \notin DOMAIN fs THEN "FileNotFoundError"
    ELSE IF ~WellFormed(fs[path]) THEN "CorruptCheckpointError"
    ELSE "ok"

\* save_state(obj, name): the file system after the (atomic) write
WriteFile(fs, path, obj) ==
    [q \in DOMAIN fs \cup {path} |-> IF q = path THEN obj ELSE fs[q]]
save_state(fs, obj, name) == WriteFile(fs, StatePath(name), obj)

NoFiles == [q \in {} |-> EmptyState]

\* the file systems a first run may find
InitialFileSystems ==
    { NoFiles,
      WriteFile(NoFiles, ExternalPath, DatasetCorrupt),
      WriteFile(NoFiles, ContinuePath(<<"a">>), DatasetCorrupt),
      WriteFile(WriteFile(NoFiles, ExternalPath, DatasetShort),
                ContinuePath(<<"a">>), DatasetLong) }

(* ---------------------------- command line ----------------------------- *)
\* --load not given
NoLoad == <<>>
LoadArgs ==
    {NoLoad, ExternalPath} \cup
    {StatePath(SaveName(f, g)) : f \in FileNames, g \in GitDescribes}

\* command lines explored: every resume option without the extra flags, and
\* the extra flags (smoke test, corner exploration) with and without resume
Configs ==
    [filename : FileNames, continued : BOOLEAN, load : LoadArgs,
     ninit : 1..MaxNinit, niters : 0..MaxNiters, rollouts : {1},
     smoke_test : {FALSE}, init_explore_corner_settings : {FALSE},
     estimate_mobility_reduction : {FALSE}]
    \cup
    [filename : FileNames, continued : BOOLEAN, load : {NoLoad},
     ninit : {1}, niters : {0, MaxNiters}, rollouts : {1},
     smoke_test : {TRUE}, init_explore_corner_settings : {FALSE},
     estimate_mobility_reduction : {FALSE}]
    \cup
    [filename : FileNames, continued : BOOLEAN, load : {NoLoad},
     ninit : {1}, niters : {1}, rollouts : {1},
     smoke_test : {FALSE}, init_explore_corner_settings : {TRUE},
     estimate_mobility_reduction : BOOLEAN]

\* lines 43-48: the smoke test overrides the budgets
SmokeTestKeepingNiters(a) ==
    IF a.smoke_test
    THEN [a EXCEPT !.ninit = 2, !.rollouts = 2]
    ELSE a
SmokeTest(a) ==
    IF a.smoke_test
    THEN [a EXCEPT !.ninit = 2, !.niters = 1, !.rollouts = 2]
    ELSE a

\* line 75: the errors of load_state that `except FileNotFoundError` catches
CatchesNothing(out) == FALSE
CatchesEveryError(out) == out # "ok"
CaughtOnContinue(out) == out = "FileNotFoundError"

\* line 80: assert bool(args.load) != can_continue
NoAssertion(load, cc) == TRUE
OnlyOneOfLoadOrContinued(load, cc) == (load # NoLoad) # cc

\* lines 90-92: the loaded observations
loaded_theta(st) == st.train_theta
loaded_G(st) == st.train_G
loaded_G_sem_FromG(st) == st.train_G
loaded_G_sem(st) == st.train_G_sem

\* line 117: range(n_bo_iters_loaded, args.niters) has a next value tt
RangeInclusive(t, niters) == t <= niters
InRange(t, niters) == t < niters

\* lines 99-104: number of initial observations
NInit(a) ==
    a.ninit + (IF a.init_explore_corner_settings
               THEN (IF a.estimate_mobility_reduction THEN 2^3 ELSE 2^2)
               ELSE 0)

(* ------------------------ case data (lib/data.py) ---------------------- *)
\* an optional argument: None, or a value
None == <<>>
Some(x) == <<x>>

\* `if until`: None and 0 are both false
UntilGiven(until) == until # None /\ until[1] # 0
\* `if end_date_string`: None is false, a date is true
EndGiven(end_date_string) == end_date_string # None

Countries == {"GER", "CH", "FR"}
Areas == {"TU", "BE", "XX"}
Datatypes == {"new", "recovered", "fatality", "deaths"}

\* the keys of command_line_area_codes[country]
command_line_area_codes(country) ==
    CASE country = "GER" -> {"TU"}
      [] country = "CH" -> {"BE"}
      [] OTHER -> {}

\* dates are day numbers; pd.to_datetime(a) - pd.to_datetime(b) is a - b days
Dates == 0..MaxDate
StartDates == {1}

\* lines 46-53 and 94-104
agemap_germany ==
    ("A00-A04" :> 0) @@ ("A05-A14" :> 1) @@ ("A15-A34" :> 2) @@
    ("A35-A59" :> 3) @@ ("A60-A79" :> 4) @@ ("A80+" :> 5)
agemap_switzerland ==
    ("0 - 9 Jahren" :> 0) @@ ("10 - 19 Jahren" :> 1) @@ ("20 - 29 Jahren" :> 2) @@
    ("30 - 39 Jahren" :> 3) @@ ("40 - 49 Jahren" :> 4) @@ ("50 - 59 Jahren" :> 5) @@
    ("60 - 69 Jahren" :> 6) @@ ("70 - 79 Jahren" :> 7) @@ ("80+ Jahren" :> 8)

\* df['age_group'] = 0, then every key of the map overwrites its rows
age_group(agemap, label) == IF label \in DOMAIN agemap THEN agemap[label] ELSE 0

\* second dimension of the arrays of lines 180 and 203
AgeGroupsGER == 6
AgeGroupsCH == 9

\* rows of GER_COVID19.csv for the requested Landkreis: an early case, and a
\* second row that may be a correction (negative count, indicator -1)
CsvGermany ==
    {<<>>} \cup
    { <<a, b>> :
        a \in [Meldedatum : Dates, Altersgruppe : {"A00-A04"},
               AnzahlFall : {1}, NeuerFall : {0},
               AnzahlGenesen : {1}, NeuGenesen : {1},
               AnzahlTodesfall : {0}, NeuerTodesfall : {-9}],
        b \in [Meldedatum : {0, MaxDate}, Altersgruppe : {"A00-A04", "A80+", "unbekannt"},
               AnzahlFall : {2, -1}, NeuerFall : {1, -1},
               AnzahlGenesen : {0}, NeuGenesen : {-9},
               AnzahlTodesfall : {1}, NeuerTodesfall : {0}] }

\* rows of CH_COVID19.csv for the requested canton
CsvSwitzerland ==
    {<<>>} \cup
    { <<a, b>> :
        a \in [Datum : Dates, Altersklasse : {"0 - 9 Jahren"}, Anzahl : {1}],
        b \in [Datum : {0, MaxDate},
               Altersklasse : {"0 - 9 Jahren", "80+ Jahren", "Unbekannt"},
               Anzahl : {2, -1}] }

Csv(country) ==
    CASE country = "GER" -> CsvGermany
      [] country = "CH" -> CsvSwitzerland
      [] OTHER -> {<<>>}

\* the calls of collect_data_from_df explored, each with the csv it reads
Calls ==
    UNION { [country : {c}, area : Areas, datatype : Datatypes,
             start_date_string : StartDates,
             until : {None} \cup {Some(u) : u \in 0..MaxUntil},
             end_date_string : {None} \cup {Some(d) : d \in Dates},
             csv : Csv(c)] : c \in Countries }

\* lines 43-62: drop rows of unknown age, add the columns age_group and days
columns_germany(csv, start_date) ==
    LET known == SelectSeq(csv, LAMBDA r : r.Altersgruppe # "unbekannt")
    IN  [i \in 1..Len(known) |->
            [row |-> known[i],
             Meldedatum |-> known[i].Meldedatum,
             age_group |-> age_group(agemap_germany, known[i].Altersgruppe),
             days |-> known[i].Meldedatum - start_date]]

\* lines 23-71
get_preprocessed_data_germany(csv, start_date, until, end_date_string) ==
    LET df == columns_germany(csv, start_date)
        by_days == IF UntilGiven(until)
                   THEN SelectSeq(df, LAMBDA r : r.days <= until[1])
                   ELSE df
    IN  IF EndGiven(end_date_string)
        THEN SelectSeq(by_days, LAMBDA r : r.Meldedatum <= end_date_string[1])
        ELSE by_days

\* lines 105-121: add the columns age_group, days and new
columns_switzerland(csv, start_date) ==
    [i \in 1..Len(csv) |->
        [Datum |-> csv[i].Datum,
         age_group |-> age_group(agemap_switzerland, csv[i].Altersklasse),
         days |-> csv[i].Datum - start_date,
         new |-> csv[i].Anzahl]]

\* lines 74-131
get_preprocessed_data_switzerland(csv, start_date, until, end_date_string) ==
    LET df == columns_switzerland(csv, start_date)
        by_days == IF UntilGiven(until)
                   THEN SelectSeq(df, LAMBDA r : r.days <= until[1])
                   ELSE df
    IN  IF EndGiven(end_date_string)
        THEN SelectSeq(by_days, LAMBDA r : r.Datum <= end_date_string[1])
        ELSE by_days

\* lines 157-162: the counter and indicator columns of a datatype
ValidDatatypesGER == {"new", "recovered", "fatality"}
ctr(datatype) ==
    CASE datatype = "new" -> "AnzahlFall"
      [] datatype = "recovered" -> "AnzahlGenesen"
      [] datatype = "fatality" -> "AnzahlTodesfall"
indic(datatype) ==
    CASE datatype = "new" -> "NeuerFall"
      [] datatype = "recovered" -> "NeuGenesen"
      [] datatype = "fatality" -> "NeuerTodesfall"

\* lines 175-176: the column `new` = counts_as_new * df_tmp[ctr]
with_new(df, datatype) ==
    [i \in 1..Len(df) |->
        [age_group |-> df[i].age_group,
         days |-> df[i].days,
         new |-> (IF df[i].row[indic(datatype)] \in {0, 1} THEN 1 ELSE 0)
                    * df[i].row[ctr(datatype)]]]

RECURSIVE SumSeq(_)
SumSeq(s) == IF s = <<>> THEN 0 ELSE Head(s) + SumSeq(Tail(s))

\* lines 184 / 206: the mask df_tmp.days <= t
OnlyAt(days, t) == days = t
AtOrBefore(days, t) == days <= t

\* df_tmp[(df_tmp.days <= t) & (df_tmp.age_group == agegroup)].new.sum()
CumulativeNew(df, t, agegroup) ==
    LET sel == SelectSeq(df, LAMBDA r : AtOrBefore(r.days, t) /\ r.age_group = agegroup)
    IN  SumSeq([i \in 1..Len(sel) |-> sel[i].new])

\* np.zeros((rows, cols)): indices are 0-based as in numpy
zeros(rows, cols) ==
    [shape |-> <<rows, cols>>,
     cell |-> [t \in 0..(rows - 1) |-> [a \in 0..(cols - 1) |-> 0]]]

\* lines 180-186 / 203-209: the array filled by the two loops
Accumulate(df, rows, cols) ==
    [shape |-> <<rows, cols>>,
     cell |-> [t \in 0..(rows - 1) |->
                 [a \in 0..(cols - 1) |->
                     zeros(rows, cols).cell[t][a] + CumulativeNew(df, t, a)]]]

(* -------------------------------- state -------------------------------- *)
VARIABLES
    pc,                 \* position of the running script, or how it ended
    runs,               \* runs of the script started so far
    files,              \* the file system: path -> stored state
    loop_written,       \* the files whose content line 177 wrote
    args,               \* parsed command line (after the smoke-test override)
    git,                \* output of `git describe --always` in this run
    sim,                \* the black-box simulator of this run
    can_continue,       \* line 70
    state,              \* line 73 / 89 / 170: the state dict
    n_loaded,           \* line 93
    train_theta,        \* history: parameter vectors
    train_G,            \* history: observations
    train_G_sem,        \* history: standard errors
    best_observed_obj,  \* line 96 / 148
    best_observed_idx,  \* line 96 / 147
    n_bo_iters_loaded,  \* line 106 / 111
    tt,                 \* loop variable of line 117
    model,              \* the data the surrogate (mll, model) was built from
    new,                \* new_theta, new_G, new_G_sem of line 137
    reported,           \* what lines 180-190 print
    n_evals,            \* simulator evaluations made by this run
    n_saves,            \* save_state calls of line 177 completed by this run
    n_seed_saves,       \* checkpoints written while seeding in this run
    n_reads,            \* load_state calls that returned in this run
    failed_at,          \* where the run stopped, when it did not finish
    call,               \* lib/data.py: arguments of collect_data_from_df, and the csv
    dpc,                \* lib/data.py: position inside collect_data_from_df
    max_days,           \* lib/data.py: line 147 / 150
    result              \* lib/data.py: how collect_data_from_df ended, and with what

calibrate_vars ==
    <<pc, runs, files, loop_written, args, git, sim, can_continue, state, n_loaded,
      train_theta, train_G, train_G_sem, best_observed_obj, best_observed_idx,
      n_bo_iters_loaded, tt, model, new, reported, n_evals, n_saves,
      n_seed_saves, n_reads, failed_at>>
data_vars == <<call, dpc, max_days, result>>
vars == <<calibrate_vars, data_vars>>

NoModel == [train_theta |-> <<>>, train_G |-> <<>>, train_G_sem |-> <<>>, fitted |-> FALSE]
NoNew == [theta |-> 0, G |-> 0, G_sem |-> 0]
NoReport == [printed |-> FALSE, obj |-> 0, theta |-> 0]
NoArgs == CHOOSE a \in Configs : TRUE

Running ==
    {"try_continue", "load_initial", "seeding", "init_model", "loop",
     "acquire", "concat", "reinit", "log", "save"}
Ended == {"not_started", "done", "failed"}

\* the history and best-observed bookkeeping as line 170-176 packs them
StateWithStaleBest ==
    [train_theta |-> train_theta, train_G |-> train_G, train_G_sem |-> train_G_sem,
     best_observed_obj |-> state.best_observed_obj,
     best_observed_idx |-> state.best_observed_idx]
CurrentState ==
    [train_theta |-> train_theta, train_G |-> train_G, train_G_sem |-> train_G_sem,
     best_observed_obj |-> best_observed_obj, best_observed_idx |-> best_observed_idx]

\* the name line 177 hands to save_state, and the file that call writes
SavedName == SaveName(args.filename, git)
SavedPath == StatePath(SavedName)

\* the files save_state can write
SavePaths == {StatePath(SaveName(f, g)) : f \in FileNames, g \in GitDescribes}

Locals0 ==
    /\ can_continue = FALSE
    /\ state = EmptyState
    /\ n_loaded = 0
    /\ train_theta = <<>>
    /\ train_G = <<>>
    /\ train_G_sem = <<>>
    /\ best_observed_obj = 0
    /\ best_observed_idx = 0
    /\ n_bo_iters_loaded = 0
    /\ tt = 0
    /\ model = NoModel
    /\ new = NoNew
    /\ reported = NoReport
    /\ n_evals = 0
    /\ n_saves = 0
    /\ n_seed_saves = 0
    /\ n_reads = 0
    /\ failed_at = "none"

\* every variable of the script takes its value of process start
Reset ==
    /\ can_continue' = FALSE
    /\ state' = EmptyState
    /\ n_loaded' = 0
    /\ train_theta' = <<>>
    /\ train_G' = <<>>
    /\ train_G_sem' = <<>>
    /\ best_observed_obj' = 0
    /\ best_observed_idx' = 0
    /\ n_bo_iters_loaded' = 0
    /\ tt' = 0
    /\ model' = NoModel
    /\ new' = NoNew
    /\ reported' = NoReport
    /\ n_evals' = 0
    /\ n_saves' = 0
    /\ n_seed_saves' = 0
    /\ n_reads' = 0
    /\ failed_at' = "none"

\* collect_data_from_df is not running
NoCall ==
    [country |-> "FR", area |-> "XX", datatype |-> "new", start_date_string |-> 1,
     until |-> None, end_date_string |-> None, csv |-> <<>>]
NoResult == [kind |-> "none", data |-> zeros(0, 0)]
DataIdle ==
    /\ call = NoCall
    /\ dpc = "idle"
    /\ max_days = 0
    /\ result = NoResult

Init ==
    /\ pc = "not_started"
    /\ runs = 0
    /\ files \in InitialFileSystems
    /\ loop_written = {}
    /\ args = NoArgs
    /\ git = <<"g">>
    /\ sim = "bytheta"
    /\ Locals0
    /\ DataIdle

(* ------------------------------- actions ------------------------------- *)
\* an exception or an interruption ends the run at position `where`
Stop(where) ==
    /\ pc' = "failed"
    /\ failed_at' = where

\* lines 38-68: a run of the script starts
Start(cfg, describe, s) ==
    /\ pc = "not_started"
    /\ runs < MaxRuns
    /\ runs' = runs + 1
    /\ args' = SmokeTest(cfg)
    /\ git' = describe
    /\ sim' = s
    /\ pc' = "try_continue"
    /\ UNCHANGED <<files, loop_written, can_continue, state, n_loaded, train_theta, train_G,
                   train_G_sem, best_observed_obj, best_observed_idx,
                   n_bo_iters_loaded, tt, model, new, reported, n_evals, n_saves,
                   n_reads, failed_at, n_seed_saves>>
    /\ UNCHANGED data_vars

\* lines 70-76: look for the checkpoint of a continued run
TryContinue ==
    /\ pc = "try_continue"
    /\ IF args.continued
       THEN LET path == ContinuePath(args.filename)
                out == LoadOutcome(files, path)
            IN  CASE out = "ok" ->
                       /\ state' = files[path]
                       /\ can_continue' = TRUE
                       /\ n_reads' = n_reads + 1
                       /\ pc' = "load_initial"
                       /\ UNCHANGED failed_at
                  [] CaughtOnContinue(out) ->
                       /\ can_continue' = FALSE
                       /\ pc' = "load_initial"
                       /\ UNCHANGED <<state, n_reads, failed_at>>
                  [] OTHER ->
                       /\ Stop("try_continue")
                       /\ UNCHANGED <<state, can_continue, n_reads>>
       ELSE /\ pc' = "load_initial"
            /\ UNCHANGED <<state, can_continue, n_reads, failed_at>>
    /\ UNCHANGED <<runs, files, loop_written, args, git, sim, n_loaded, train_theta, train_G,
                   train_G_sem, best_observed_obj, best_observed_idx,
                   n_bo_iters_loaded, tt, model, new, reported, n_evals, n_saves, n_seed_saves>>
    /\ UNCHANGED data_vars

\* lines 79-97 and 108-110: pick the initial training data and enter
\* generate_initial_observations with it
LoadInitial ==
    /\ pc = "load_initial"
    /\ IF args.load # NoLoad \/ can_continue
       THEN IF ~OnlyOneOfLoadOrContinued(args.load, can_continue)
            THEN \* line 80: AssertionError
                 /\ Stop("assert")
                 /\ UNCHANGED <<state, n_loaded, train_theta, train_G, train_G_sem, n_reads>>
            ELSE LET filepath == IF can_continue THEN ContinuePath(args.filename)
                                 ELSE args.load
                 IN  IF LoadOutcome(files, filepath) = "ok"
                     THEN /\ state' = files[filepath]
                          /\ n_reads' = n_reads + 1
                          /\ n_loaded' = Len(files[filepath].train_theta)
                          /\ train_theta' = loaded_theta(files[filepath])
                          /\ train_G' = loaded_G(files[filepath])
                          /\ train_G_sem' = loaded_G_sem(files[filepath])
                          /\ pc' = "seeding"
                          /\ UNCHANGED failed_at
                     ELSE /\ Stop("load_state")
                          /\ UNCHANGED <<state, n_loaded, train_theta, train_G,
                                         train_G_sem, n_reads>>
       ELSE /\ pc' = "seeding"
            /\ UNCHANGED <<state, n_loaded, train_theta, train_G, train_G_sem,
                           n_reads, failed_at>>
    /\ UNCHANGED <<runs, files, loop_written, args, git, sim, can_continue, best_observed_obj,
                   best_observed_idx, n_bo_iters_loaded, tt, model, new, reported,
                   n_evals, n_saves, n_seed_saves>>
    /\ UNCHANGED data_vars

\* generate_initial_observations: evaluate the next missing initial point,
\* append it, and persist the history with its best observation
SeedStepWithoutSave ==
    /\ pc = "seeding"
    /\ Len(train_theta) < NInit(args)
    /\ LET i == Len(train_theta)
           th == InitialDesignTheta(i)
           ob == Simulate(sim, th, i)
       IN  /\ train_theta' = Append(train_theta, th)
           /\ train_G' = Append(train_G, ob.G)
           /\ train_G_sem' = Append(train_G_sem, ob.G_sem)
    /\ n_evals' = n_evals + 1
    /\ UNCHANGED <<pc, runs, files, loop_written, n_seed_saves, args, git, sim, can_continue, state, n_loaded,
                   best_observed_obj, best_observed_idx, n_bo_iters_loaded, tt,
                   model, new, reported, n_saves, n_reads, failed_at>>
    /\ UNCHANGED data_vars

SeedStep ==
    /\ pc = "seeding"
    /\ Len(train_theta) < NInit(args)
    /\ LET i == Len(train_theta)
           th == InitialDesignTheta(i)
           ob == Simulate(sim, th, i)
       IN  /\ train_theta' = Append(train_theta, th)
           /\ train_G' = Append(train_G, ob.G)
           /\ train_G_sem' = Append(train_G_sem, ob.G_sem)
           /\ files' = save_state(files,
                           [train_theta |-> Append(train_theta, th),
                            train_G |-> Append(train_G, ob.G),
                            train_G_sem |-> Append(train_G_sem, ob.G_sem),
                            best_observed_obj |-> BestObj(Append(train_G, ob.G)),
                            best_observed_idx |-> BestIdx(Append(train_G, ob.G))],
                           SavedName)
           /\ loop_written' = loop_written \ {SavedPath}
    /\ n_evals' = n_evals + 1
    /\ n_seed_saves' = n_seed_saves + 1
    /\ UNCHANGED <<pc, runs, args, git, sim, can_continue, state, n_loaded,
                   best_observed_obj, best_observed_idx, n_bo_iters_loaded, tt,
                   model, new, reported, n_saves, n_reads, failed_at>>
    /\ UNCHANGED data_vars

\* generate_initial_observations returns (lines 96-97 / 109-110), then
\* lines 99-106 / 111
SeedingReturn ==
    /\ pc = "seeding"
    /\ Len(train_theta) >= NInit(args)
    /\ best_observed_idx' = BestIdx(train_G)
    /\ best_observed_obj' = BestObj(train_G)
    /\ n_bo_iters_loaded' =
          IF args.load # NoLoad \/ can_continue
          THEN Max(n_loaded - NInit(args), 0)
          ELSE 0
    /\ pc' = "init_model"
    /\ UNCHANGED <<runs, files, loop_written, args, git, sim, can_continue, state, n_loaded,
                   train_theta, train_G, train_G_sem, tt, model, new, reported,
                   n_evals, n_saves, n_reads, failed_at, n_seed_saves>>
    /\ UNCHANGED data_vars

\* initialize_model(train_theta, train_G, train_G_sem)
initialize_model(theta, G, G_sem) ==
    [train_theta |-> theta, train_G |-> G, train_G_sem |-> G_sem, fitted |-> FALSE]

\* line 114, and the loop variable of line 117 takes its first value
InitModel ==
    /\ pc = "init_model"
    /\ model' = initialize_model(train_theta, train_G, train_G_sem)
    /\ tt' = n_bo_iters_loaded
    /\ pc' = "loop"
    /\ UNCHANGED <<runs, files, loop_written, args, git, sim, can_continue, state, n_loaded,
                   train_theta, train_G, train_G_sem, best_observed_obj,
                   best_observed_idx, n_bo_iters_loaded, new, reported, n_evals,
                   n_saves, n_reads, failed_at, n_seed_saves>>
    /\ UNCHANGED data_vars

\* lines 117-122: another iteration; fit the GP model
Fit ==
    /\ pc = "loop"
    /\ InRange(tt, args.niters)
    /\ model' = [model EXCEPT !.fitted = TRUE]
    /\ pc' = "acquire"
    /\ UNCHANGED <<runs, files, loop_written, args, git, sim, can_continue, state, n_loaded,
                   train_theta, train_G, train_G_sem, best_observed_obj,
                   best_observed_idx, n_bo_iters_loaded, tt, new, reported,
                   n_evals, n_saves, n_reads, failed_at, n_seed_saves>>
    /\ UNCHANGED data_vars

\* lines 125-138: optimise the acquisition, simulate at the selected point
Acquire(th) ==
    /\ pc = "acquire"
    /\ LET ob == Simulate(sim, th, Len(train_theta))
       IN  new' = [theta |-> th, G |-> ob.G, G_sem |-> ob.G_sem]
    /\ n_evals' = n_evals + 1
    /\ pc' = "concat"
    /\ UNCHANGED <<runs, files, loop_written, args, git, sim, can_continue, state, n_loaded,
                   train_theta, train_G, train_G_sem, best_observed_obj,
                   best_observed_idx, n_bo_iters_loaded, tt, model, reported,
                   n_saves, n_reads, failed_at, n_seed_saves>>
    /\ UNCHANGED data_vars

\* lines 140-148: concatenate the observation, update progress
ConcatThenSave ==
    /\ pc = "concat"
    /\ train_theta' = Append(train_theta, new.theta)
    /\ train_G' = Append(train_G, new.G)
    /\ train_G_sem' = Append(train_G_sem, new.G_sem)
    /\ best_observed_idx' = BestIdx(train_G')
    /\ best_observed_obj' = BestObj(train_G')
    /\ files' = save_state(files,
                    [train_theta |-> train_theta', train_G |-> train_G',
                     train_G_sem |-> train_G_sem',
                     best_observed_obj |-> best_observed_obj',
                     best_observed_idx |-> best_observed_idx'],
                    SavedName)
    /\ pc' = "reinit"
    /\ UNCHANGED <<runs, loop_written, args, git, sim, can_continue, state, n_loaded,
                   n_bo_iters_loaded, tt, model, new, reported, n_evals, n_saves,
                   n_reads, failed_at, n_seed_saves>>
    /\ UNCHANGED data_vars
ConcatPrepending ==
    /\ pc = "concat"
    /\ train_theta' = <<new.theta>> \o train_theta
    /\ train_G' = <<new.G>> \o train_G
    /\ train_G_sem' = <<new.G_sem>> \o train_G_sem
    /\ best_observed_idx' = BestIdx(train_G')
    /\ best_observed_obj' = BestObj(train_G')
    /\ pc' = "reinit"
    /\ UNCHANGED <<runs, files, loop_written, args, git, sim, can_continue, state, n_loaded,
                   n_bo_iters_loaded, tt, model, new, reported, n_evals, n_saves,
                   n_reads, failed_at, n_seed_saves>>
    /\ UNCHANGED data_vars
ConcatSkippingDuplicates ==
    /\ pc = "concat"
    /\ LET dup == \E i \in 1..Len(train_theta) : train_theta[i] = new.theta
       IN  /\ train_theta' = IF dup THEN train_theta ELSE Append(train_theta, new.theta)
           /\ train_G' = IF dup THEN train_G ELSE Append(train_G, new.G)
           /\ train_G_sem' = IF dup THEN train_G_sem ELSE Append(train_G_sem, new.G_sem)
    /\ best_observed_idx' = BestIdx(train_G')
    /\ best_observed_obj' = BestObj(train_G')
    /\ pc' = "reinit"
    /\ UNCHANGED <<runs, files, loop_written, args, git, sim, can_continue, state, n_loaded,
                   n_bo_iters_loaded, tt, model, new, reported, n_evals, n_saves,
                   n_reads, failed_at, n_seed_saves>>
    /\ UNCHANGED data_vars
ConcatForgettingSem ==
    /\ pc = "concat"
    /\ train_theta' = Append(train_theta, new.theta)
    /\ train_G' = Append(train_G, new.G)
    /\ train_G_sem' = train_G_sem
    /\ best_observed_idx' = BestIdx(train_G')
    /\ best_observed_obj' = BestObj(train_G')
    /\ pc' = "reinit"
    /\ UNCHANGED <<runs, files, loop_written, args, git, sim, can_continue, state, n_loaded,
                   n_bo_iters_loaded, tt, model, new, reported, n_evals, n_saves,
                   n_reads, failed_at, n_seed_saves>>
    /\ UNCHANGED data_vars
Concat ==
    /\ pc = "concat"
    /\ train_theta' = Append(train_theta, new.theta)
    /\ train_G' = Append(train_G, new.G)
    /\ train_G_sem' = Append(train_G_sem, new.G_sem)
    /\ best_observed_idx' = BestIdx(train_G')
    /\ best_observed_obj' = BestObj(train_G')
    /\ pc' = "reinit"
    /\ UNCHANGED <<runs, files, loop_written, args, git, sim, can_continue, state, n_loaded,
                   n_bo_iters_loaded, tt, model, new, reported, n_evals, n_saves,
                   n_reads, failed_at, n_seed_saves>>
    /\ UNCHANGED data_vars

\* lines 150-155: re-initialise the models
ReinitKeepingModel ==
    /\ pc = "reinit"
    /\ model' = [model EXCEPT !.fitted = FALSE]
    /\ pc' = "log"
    /\ UNCHANGED <<runs, files, loop_written, args, git, sim, can_continue, state, n_loaded,
                   train_theta, train_G, train_G_sem, best_observed_obj,
                   best_observed_idx, n_bo_iters_loaded, tt, new, reported,
                   n_evals, n_saves, n_reads, failed_at, n_seed_saves>>
    /\ UNCHANGED data_vars
Reinit ==
    /\ pc = "reinit"
    /\ model' = initialize_model(train_theta, train_G, train_G_sem)
    /\ pc' = "log"
    /\ UNCHANGED <<runs, files, loop_written, args, git, sim, can_continue, state, n_loaded,
                   train_theta, train_G, train_G_sem, best_observed_obj,
                   best_observed_idx, n_bo_iters_loaded, tt, new, reported,
                   n_evals, n_saves, n_reads, failed_at, n_seed_saves>>
    /\ UNCHANGED data_vars

\* lines 157-167: log the iteration
Log ==
    /\ pc = "log"
    /\ pc' = "save"
    /\ UNCHANGED <<runs, files, loop_written, args, git, sim, can_continue, state, n_loaded,
                   train_theta, train_G, train_G_sem, best_observed_obj,
                   best_observed_idx, n_bo_iters_loaded, tt, model, new, reported,
                   n_evals, n_saves, n_reads, failed_at, n_seed_saves>>
    /\ UNCHANGED data_vars

\* lines 169-177: save the state; the loop goes to its next value
Save ==
    /\ pc = "save"
    /\ state' = CurrentState
    /\ files' = save_state(files, CurrentState, SavedName)
    /\ loop_written' = loop_written \cup {SavedPath}
    /\ n_saves' = n_saves + 1
    /\ tt' = tt + 1
    /\ pc' = "loop"
    /\ UNCHANGED <<runs, args, git, sim, can_continue, n_loaded, train_theta,
                   train_G, train_G_sem, best_observed_obj, best_observed_idx,
                   n_bo_iters_loaded, model, new, reported, n_evals, n_reads,
                   failed_at, n_seed_saves>>
    /\ UNCHANGED data_vars

\* lines 179-190: the budget is used up; print the best parameters
Report ==
    /\ pc = "loop"
    /\ ~InRange(tt, args.niters)
    /\ reported' = [printed |-> TRUE, obj |-> best_observed_obj,
                    theta |-> train_theta[best_observed_idx + 1]]
    /\ pc' = "done"
    /\ UNCHANGED <<runs, files, loop_written, args, git, sim, can_continue, state, n_loaded,
                   train_theta, train_G, train_G_sem, best_observed_obj,
                   best_observed_idx, n_bo_iters_loaded, tt, model, new, n_evals,
                   n_saves, n_reads, failed_at, n_seed_saves>>
    /\ UNCHANGED data_vars

\* any step may raise (fit, acquisition, evaluation, model, logging, git
\* describe) or the process may be interrupted: nothing catches it
Abort ==
    /\ pc \in Running
    /\ Stop(pc)
    /\ UNCHANGED <<runs, files, loop_written, args, git, sim, can_continue, state, n_loaded,
                   train_theta, train_G, train_G_sem, best_observed_obj,
                   best_observed_idx, n_bo_iters_loaded, tt, model, new, reported,
                   n_evals, n_saves, n_reads, n_seed_saves>>
    /\ UNCHANGED data_vars

\* the process is gone: only the file system outlives it
Exit ==
    /\ pc \in {"done", "failed"}
    /\ pc' = "not_started"
    /\ args' = NoArgs
    /\ git' = <<"g">>
    /\ sim' = "bytheta"
    /\ Reset
    /\ UNCHANGED <<runs, files, loop_written>>
    /\ UNCHANGED data_vars

\* the steps of the script itself
Step ==
    \/ TryContinue
    \/ LoadInitial
    \/ SeedStep
    \/ SeedingReturn
    \/ InitModel
    \/ Fit
    \/ \E th \in Thetas : Acquire(th)
    \/ Concat
    \/ Reinit
    \/ Log
    \/ Save
    \/ Report

Next ==
    \/ \E cfg \in Configs, describe \in GitDescribes, s \in Simulators :
          Start(cfg, describe, s)
    \/ TryContinue
    \/ LoadInitial
    \/ SeedStep
    \/ SeedingReturn
    \/ InitModel
    \/ Fit
    \/ \E th \in Thetas : Acquire(th)
    \/ Concat
    \/ Reinit
    \/ Log
    \/ Save
    \/ Report
    \/ Abort
    \/ Exit

Spec == Init /\ [][Next]_vars

(* ------------------- collect_data_from_df (lib/data.py) ---------------- *)
\* the function returns, raises or exits
Ends(kind, data) ==
    /\ result' = [kind |-> kind, data |-> data]
    /\ dpc' = "returned"

\* a call of collect_data_from_df; the calibration script is not running
DataInit ==
    /\ pc = "not_started"
    /\ runs = 0
    /\ files = NoFiles
    /\ loop_written = {}
    /\ args = NoArgs
    /\ git = <<"g">>
    /\ sim = "bytheta"
    /\ Locals0
    /\ call \in Calls
    /\ dpc = "entry"
    /\ max_days = 0
    /\ result = NoResult

\* lines 143-153: one of `until` and `end_date_string` gives max_days
CheckRange ==
    /\ dpc = "entry"
    /\ IF UntilGiven(call.until) /\ EndGiven(call.end_date_string)
       THEN /\ Ends("exit", zeros(0, 0))
            /\ UNCHANGED max_days
       ELSE IF EndGiven(call.end_date_string)
       THEN /\ max_days' = call.end_date_string[1] - call.start_date_string
            /\ dpc' = "country"
            /\ UNCHANGED result
       ELSE IF UntilGiven(call.until)
       THEN /\ max_days' = call.until[1]
            /\ dpc' = "country"
            /\ UNCHANGED result
       ELSE /\ Ends("ValueError", zeros(0, 0))
            /\ UNCHANGED max_days
    /\ UNCHANGED <<call, calibrate_vars>>

\* lines 155-186
CollectGER ==
    /\ dpc = "country"
    /\ call.country = "GER"
    /\ IF call.datatype \notin ValidDatatypesGER
       THEN Ends("ValueError", zeros(0, 0))
       ELSE IF call.area \notin command_line_area_codes("GER")
       THEN Ends("ValueError", zeros(0, 0))
       ELSE IF max_days < 0
       THEN \* np.zeros: negative dimensions are not allowed
            Ends("ValueError", zeros(0, 0))
       ELSE LET df_tmp == get_preprocessed_data_germany(call.csv, call.start_date_string,
                                call.until, call.end_date_string)
            IN  Ends("array", Accumulate(with_new(df_tmp, call.datatype),
                                         max_days, AgeGroupsGER))
    /\ UNCHANGED <<call, max_days, calibrate_vars>>

\* lines 188-209
CollectCH ==
    /\ dpc = "country"
    /\ call.country = "CH"
    /\ IF call.datatype # "new"
       THEN Ends("array", zeros(1, 9))
       ELSE IF call.area \notin command_line_area_codes("CH")
       THEN Ends("ValueError", zeros(0, 0))
       ELSE IF max_days < 0
       THEN Ends("ValueError", zeros(0, 0))
       ELSE LET df_tmp == get_preprocessed_data_switzerland(call.csv,
                                call.start_date_string, call.until, call.end_date_string)
            IN  Ends("array", Accumulate(df_tmp, max_days, AgeGroupsCH))
    /\ UNCHANGED <<call, max_days, calibrate_vars>>

\* lines 211-212
InvalidCountry ==
    /\ dpc = "country"
    /\ call.country \notin {"GER", "CH"}
    /\ Ends("NotImplementedError", zeros(0, 0))
    /\ UNCHANGED <<call, max_days, calibrate_vars>>

DataNext ==
    \/ CheckRange
    \/ CollectGER
    \/ CollectCH
    \/ InvalidCountry

DataSpec == DataInit /\ [][DataNext]_vars

(* ------------------------------- claims -------------------------------- *)
LoopPcs == {"loop", "acquire", "concat", "reinit", "log", "save"}

\* the run is at position p, or stopped there
At(p) == pc = p \/ (pc = "failed" /\ failed_at = p)

\* generate_initial_observations has returned
AfterSeeding ==
    \/ pc \in {"init_model", "done"} \cup LoopPcs
    \/ pc = "failed" /\ failed_at \in {"init_model"} \cup LoopPcs

\* v is the largest objective of the observations G
IsMaxObjective(v, G) ==
    /\ \A i \in 1..Len(G) : objective(G[i]) <= v
    /\ \E i \in 1..Len(G) : objective(G[i]) = v

\* history length when the BO loop is entered
LenAtLoopEntry == Max(n_loaded, NInit(args))

\* the file the run loads its initial observations from
LoadedPath == IF can_continue THEN ContinuePath(args.filename) ELSE args.load

\* C1: once the initial observations exist, after every BO iteration and at
\* the final report (also in a resumed run), best_observed_obj is the maximum
\* objective over the whole history train_G and best_observed_idx is a valid
\* index of an observation with that objective.
C1_BestObservedIsMax ==
    AfterSeeding =>
        /\ IsMaxObjective(best_observed_obj, train_G)
        /\ best_observed_idx \in 0..(Len(train_G) - 1)
        /\ objective(train_G[best_observed_idx + 1]) = best_observed_obj
        /\ (pc = "done" => reported.obj = best_observed_obj)

\* a resumed run reports a best observation found by one of its own iterations
C1_Witness ==
    /\ pc = "done"
    /\ n_loaded > 0
    /\ n_saves >= 1
    /\ best_observed_idx >= n_loaded

C3_SavedPathIsContinuePath ==
    n_saves > 0 => SavedPath = ContinuePath(args.filename)

\* C4: with both `load` and `continued` given and the checkpoint of
\* `continued` present, the run never gets past the check of line 80: it
\* evaluates nothing and writes no checkpoint.
C4_AmbiguousResumeFails ==
    ( /\ pc # "not_started"
      /\ args.load # NoLoad
      /\ args.continued
      /\ ContinuePath(args.filename) \in DOMAIN files )
    => /\ pc \in {"try_continue", "load_initial", "failed"}
       /\ pc = "failed" => failed_at \in {"try_continue", "load_initial", "assert"}
       /\ n_evals = 0
       /\ n_saves = 0
       /\ n_seed_saves = 0

\* the assertion of line 80 stopped a run
C4_Witness ==
    /\ pc = "failed"
    /\ failed_at = "assert"
    /\ args.load \in DOMAIN files
    /\ ContinuePath(args.filename) \in DOMAIN files

\* C5: after every completed BO iteration the checkpoint file holds the full
\* history, the observation of that iteration included, with the
\* best_observed_obj and best_observed_idx of that iteration; one checkpoint
\* per iteration, each replacing the one before.
C5_CheckpointAfterEveryIteration ==
    (pc = "loop" /\ n_saves > 0) =>
        /\ SavedPath \in DOMAIN files
        /\ files[SavedPath].train_theta = train_theta
        /\ files[SavedPath].train_G = train_G
        /\ files[SavedPath].train_G_sem = train_G_sem
        /\ files[SavedPath].best_observed_obj = best_observed_obj
        /\ files[SavedPath].best_observed_idx = best_observed_idx
        /\ Len(train_theta) = LenAtLoopEntry + n_saves
        /\ n_saves = tt - n_bo_iters_loaded

\* two iterations completed: the second checkpoint replaced the first
C5_Witness ==
    /\ pc = "loop"
    /\ n_saves = 2
    /\ Len(files[SavedPath].train_theta) = LenAtLoopEntry + 2

\* the checkpoint at the save path holds the first n observations of the
\* history, with the best observation among them
CheckpointHoldsFirst(n) ==
    /\ SavedPath \in DOMAIN files
    /\ files[SavedPath].train_theta = SubSeq(train_theta, 1, n)
    /\ files[SavedPath].train_G = SubSeq(train_G, 1, n)
    /\ files[SavedPath].train_G_sem = SubSeq(train_G_sem, 1, n)
    /\ IsMaxObjective(files[SavedPath].best_observed_obj, SubSeq(train_G, 1, n))

\* C6: inside the BO loop the checkpoint is written only by the last step of
\* an iteration; a step that fails writes nothing, and a run that failed in
\* an iteration leaves the checkpoint of the last completed iteration.
C6_FailureKeepsLastCheckpoint ==
    /\ [][ /\ (pc' = "failed" => files' = files)
           /\ (pc \in LoopPcs /\ files' # files => pc = "save" /\ pc' = "loop") ]_vars
    /\ []( (pc = "failed" /\ failed_at \in LoopPcs /\ n_saves > 0)
             => CheckpointHoldsFirst(LenAtLoopEntry + n_saves) )

\* the second iteration failed while logging, after one completed iteration
C6_Witness ==
    /\ pc = "failed"
    /\ failed_at = "log"
    /\ n_saves = 1
    /\ Len(train_theta) = LenAtLoopEntry + 2
    /\ Len(files[SavedPath].train_theta) = LenAtLoopEntry + 1

\* C7: after every seeding step that appends an observation, and when
\* seeding is complete and no BO iteration has completed yet, a checkpoint
\* on storage holds the full history and its best observation.
C7_CheckpointAfterSeeding ==
    /\ (At("seeding") /\ n_evals > 0) => CheckpointHoldsFirst(Len(train_theta))
    /\ (AfterSeeding /\ n_saves = 0) =>
          \E p \in DOMAIN files :
             /\ files[p].train_theta = SubSeq(train_theta, 1, LenAtLoopEntry)
             /\ files[p].train_G = SubSeq(train_G, 1, LenAtLoopEntry)
             /\ files[p].train_G_sem = SubSeq(train_G_sem, 1, LenAtLoopEntry)
             /\ IsMaxObjective(files[p].best_observed_obj,
                               SubSeq(train_G, 1, LenAtLoopEntry))

\* a fresh run with niters = 0 is done and its seeds are in the checkpoint
C7_Witness ==
    /\ pc = "done"
    /\ args.niters = 0
    /\ n_loaded = 0
    /\ n_evals > 0
    /\ files[SavedPath].train_theta = train_theta

\* the file the run takes its initial observations from exists and its
\* arrays have mismatched lengths
LoadsCorruptCheckpoint ==
    LET cp == ContinuePath(args.filename)
    IN  \/ /\ args.continued
           /\ cp \in DOMAIN files
           /\ ~WellFormed(files[cp])
        \/ /\ ~(args.continued /\ cp \in DOMAIN files)
           /\ args.load \in DOMAIN files
           /\ ~WellFormed(files[args.load])

\* C8: a run whose checkpoint has arrays of mismatched lengths stops while
\* loading: nothing is evaluated, no model is initialised, no iteration runs.
C8_CorruptCheckpointIsFatal ==
    (pc # "not_started" /\ LoadsCorruptCheckpoint) =>
        /\ pc \in {"try_continue", "load_initial", "failed"}
        /\ pc = "failed" => failed_at \in {"try_continue", "load_initial", "load_state"}
        /\ n_evals = 0
        /\ model = NoModel
        /\ train_theta = <<>>
        /\ n_saves = 0

\* load_state refused a file that exists
C8_Witness ==
    /\ pc = "failed"
    /\ failed_at = "load_state"
    /\ args.load \in DOMAIN files
    /\ ~WellFormed(files[args.load])

C10_FixedIterationBudget ==
    /\ []( pc \in LoopPcs \ {"loop"} => (n_bo_iters_loaded <= tt /\ tt < args.niters) )
    /\ []( pc \in Running => ENABLED Step )
    /\ []( pc = "done" =>
             /\ n_saves = Max(args.niters - n_bo_iters_loaded, 0)
             /\ n_evals = Max(NInit(args) - n_loaded, 0) + n_saves
             /\ reported = [printed |-> TRUE, obj |-> best_observed_obj,
                            theta |-> train_theta[best_observed_idx + 1]] )
    /\ [][ /\ (pc = "save" /\ pc' = "loop" => tt' = tt + 1)
           /\ (pc = "done" => pc' = "not_started" /\ files' = files) ]_vars

\* a resumed run did the iterations that were left and reported
C10_Witness ==
    /\ pc = "done"
    /\ n_bo_iters_loaded > 0
    /\ n_saves > 0
    /\ tt = args.niters

\* the step of lines 141-143 is taken
ConcatTaken == pc = "concat" /\ pc' = "reinit"

\* acquisition returned a parameter vector the history already holds
NewThetaIsDuplicate == \E i \in 1..Len(train_theta) : train_theta[i] = new.theta

\* C11: the history is append-only: the step that concatenates adds the new
\* observation at the end and keeps every recorded (theta, G, G_sem) at its
\* position; no other step of the loop changes the history; each completed
\* iteration makes it longer by exactly one.
C11_HistoryIsAppendOnly ==
    /\ [][ /\ ConcatTaken =>
                /\ train_theta' = Append(train_theta, new.theta)
                /\ train_G' = Append(train_G, new.G)
                /\ train_G_sem' = Append(train_G_sem, new.G_sem)
                /\ \A i \in 1..Len(train_theta) :
                      /\ train_theta'[i] = train_theta[i]
                      /\ train_G'[i] = train_G[i]
                      /\ train_G_sem'[i] = train_G_sem[i]
           /\ (pc \in LoopPcs /\ pc' # "not_started" /\ ~ConcatTaken) =>
                UNCHANGED <<train_theta, train_G, train_G_sem>> ]_vars
    /\ []( pc = "loop" => Len(train_theta) = LenAtLoopEntry + n_saves )

\* the second iteration of a run has appended its observation
C11_Witness ==
    /\ pc = "reinit"
    /\ n_saves = 1
    /\ Len(train_theta) = LenAtLoopEntry + 2
    /\ train_theta[Len(train_theta)] = new.theta
    /\ train_theta[Len(train_theta)] # train_theta[1]

\* C12: whenever the loop fits the model or optimises the acquisition, the
\* model was built from the whole history so far, which holds the seeds (or
\* loaded observations) and the observation of every iteration before this
\* one; acquisition uses a fitted model.
C12_ModelBuiltFromFullHistory ==
    /\ pc \in {"loop", "acquire"} =>
          /\ model.train_theta = train_theta
          /\ model.train_G = train_G
          /\ model.train_G_sem = train_G_sem
          /\ Len(train_theta) = LenAtLoopEntry + (tt - n_bo_iters_loaded)
    /\ pc = "acquire" => model.fitted

\* the second iteration of a run is about to optimise the acquisition
C12_Witness ==
    /\ pc = "acquire"
    /\ tt = n_bo_iters_loaded + 1
    /\ model.fitted
    /\ Len(model.train_theta) = LenAtLoopEntry + 1

\* `continued` is given without `load`, and its checkpoint file is missing
ContinuedWithoutCheckpoint ==
    /\ args.continued
    /\ args.load = NoLoad
    /\ ContinuePath(args.filename) \notin DOMAIN files

\* C13: a run with `continued`, no `load` and no checkpoint file does not
\* fail on the missing file: it goes on with nothing loaded, evaluates the
\* whole initial design and counts no BO iteration as done.  A run that
\* found its checkpoint starts from the checkpoint's observations and
\* evaluates only the initial points that are missing.
C13_FreshStartWithoutCheckpoint ==
    /\ (pc = "try_continue" /\ ContinuedWithoutCheckpoint) =>
          ENABLED (TryContinue /\ pc' = "load_initial")
    /\ (pc \in Running \ {"try_continue"} /\ ContinuedWithoutCheckpoint) =>
          /\ ~can_continue
          /\ n_loaded = 0
          /\ n_reads = 0
    /\ (pc = "failed" /\ ContinuedWithoutCheckpoint) => failed_at \in Running
    /\ (pc = "init_model" /\ ContinuedWithoutCheckpoint) =>
          /\ n_bo_iters_loaded = 0
          /\ n_evals = NInit(args)
          /\ Len(train_theta) = NInit(args)
    /\ (pc \in {"seeding", "init_model"} /\ can_continue) =>
          /\ n_loaded = Len(files[ContinuePath(args.filename)].train_theta)
          /\ SubSeq(train_theta, 1, n_loaded) = files[ContinuePath(args.filename)].train_theta
          /\ SubSeq(train_G, 1, n_loaded) = files[ContinuePath(args.filename)].train_G
          /\ SubSeq(train_G_sem, 1, n_loaded) = files[ContinuePath(args.filename)].train_G_sem
    /\ (pc = "init_model" /\ can_continue) =>
          /\ n_evals = Max(NInit(args) - n_loaded, 0)
          /\ n_bo_iters_loaded = Max(n_loaded - NInit(args), 0)

\* a continued run without a checkpoint has evaluated its initial design
C13_Witness ==
    /\ pc = "init_model"
    /\ ContinuedWithoutCheckpoint
    /\ n_evals = NInit(args)
    /\ n_evals > 0

\* C15 (as claimed): a run that resumes from the checkpoint of `continued`
\* has read the checkpoint file once when it enters the initial design.
C15_CheckpointReadOnce ==
    (pc = "seeding" /\ n_evals = 0 /\ can_continue) => n_reads = 1

\* C16: when acquisition returns a parameter vector the history already
\* holds, the observation is still appended as an entry of its own, and the
\* best observation is recomputed over all entries.
C16_DuplicateThetaIsAppended ==
    [][ (ConcatTaken /\ NewThetaIsDuplicate) =>
           /\ Len(train_theta') = Len(train_theta) + 1
           /\ Len(train_G') = Len(train_G) + 1
           /\ Len(train_G_sem') = Len(train_G_sem) + 1
           /\ train_theta'[Len(train_theta')] = new.theta
           /\ train_G'[Len(train_G')] = new.G
           /\ train_G_sem'[Len(train_G_sem')] = new.G_sem
           /\ IsMaxObjective(best_observed_obj', train_G')
           /\ objective(train_G'[best_observed_idx' + 1]) = best_observed_obj' ]_vars

\* a parameter vector is in the history twice, with different observations,
\* and the later one is the best observed
C16_Witness ==
    /\ pc = "reinit"
    /\ \E i \in 1..(Len(train_theta) - 1) :
          /\ train_theta[i] = train_theta[Len(train_theta)]
          /\ train_G[i] # train_G[Len(train_G)]
    /\ train_theta[Len(train_theta)] = new.theta
    /\ best_observed_idx = Len(train_theta) - 1

\* C18: a smoke-test run has ninit = 2, niters = 1 and rollouts = 2 whatever
\* the command line gave; started without a checkpoint it does exactly one
\* BO iteration and the loop writes exactly one checkpoint.
C18_SmokeTestBudgets ==
    /\ (pc # "not_started" /\ args.smoke_test) =>
          /\ args.ninit = 2
          /\ args.niters = 1
          /\ args.rollouts = 2
    /\ (pc # "not_started" /\ args.smoke_test /\ ~can_continue) => n_saves <= 1
    /\ (pc = "done" /\ args.smoke_test /\ ~can_continue) =>
          /\ n_saves = 1
          /\ tt = 1
          /\ n_bo_iters_loaded = 0

\* a smoke-test run started without a checkpoint is done
C18_Witness ==
    /\ pc = "done"
    /\ args.smoke_test
    /\ ~can_continue
    /\ n_loaded = 0
    /\ n_saves = 1

\* C19: the three arrays of the history have the same length when the
\* initial design returns, at every step of the BO loop, and in every
\* checkpoint the loop writes.
C19_ParallelArrays ==
    /\ AfterSeeding =>
          /\ Len(train_G) = Len(train_theta)
          /\ Len(train_G_sem) = Len(train_theta)
    /\ \A p \in loop_written :
          /\ Len(files[p].train_G) = Len(files[p].train_theta)
          /\ Len(files[p].train_G_sem) = Len(files[p].train_theta)
    /\ n_saves > 0 =>
          /\ Len(state.train_G) = Len(state.train_theta)
          /\ Len(state.train_G_sem) = Len(state.train_theta)

\* a run that loaded observations wrote its second checkpoint
C19_Witness ==
    /\ pc = "loop"
    /\ n_loaded > 0
    /\ n_saves = 2
    /\ SavedPath \in loop_written
    /\ Len(files[SavedPath].train_G_sem) = n_loaded + 2

\* collect_data_from_df has returned an array
ReturnedArray == dpc = "returned" /\ result.kind = "array"

\* max_days as documented: `until`, or the days from start to end date
DocumentedMaxDays ==
    IF UntilGiven(call.until)
    THEN call.until[1]
    ELSE call.end_date_string[1] - call.start_date_string

\* C14 (as claimed): every array collect_data_from_df returns has shape
\* (max_days, age groups), with 6 age groups for GER and 9 for CH.
C14_ShapeIsMaxDaysByAgeGroups ==
    ReturnedArray =>
        result.data.shape =
            <<DocumentedMaxDays, IF call.country = "GER" THEN AgeGroupsGER ELSE AgeGroupsCH>>

\* C17 (as claimed): with neither `until` nor `end_date_string` the call
\* raises ValueError; with both it exits without data; with exactly one, an
\* unsupported country, an unknown area code or an invalid datatype ends in
\* ValueError or NotImplementedError, never in a returned array.
C17_ArgumentErrors ==
    dpc = "returned" =>
        LET u == UntilGiven(call.until)
            e == EndGiven(call.end_date_string)
        IN  /\ (~u /\ ~e) => result.kind = "ValueError"
            /\ (u /\ e) => result.kind = "exit"
            /\ ( /\ u # e
                 /\ \/ call.country \notin {"GER", "CH"}
                    \/ call.area \notin command_line_area_codes(call.country)
                    \/ call.datatype \notin {"new", "recovered", "fatality"} )
               => result.kind \in {"ValueError", "NotImplementedError"}

\* the records the series is computed from, before the date filters: age
\* group, day offset from the start date, and new-case count
CaseRecords ==
    IF call.country = "GER"
    THEN with_new(columns_germany(call.csv, call.start_date_string), call.datatype)
    ELSE columns_switzerland(call.csv, call.start_date_string)

RECURSIVE SumOfNew(_, _)
SumOfNew(df, I) ==
    IF I = {} THEN 0
    ELSE LET i == CHOOSE j \in I : TRUE
         IN  df[i].new + SumOfNew(df, I \ {i})

\* the array comes from the loops of lines 181-184 / 204-207
FilledByLoops == ReturnedArray /\ (call.country = "GER" \/ call.datatype = "new")

====
